---- MODULE Spec2Model ----
(***************************************************************************)
(* The orbit dashboard of src/app.py as a state machine: the CSV store, the *)
(* cached load_orbit_data, the sidebar controls, the filtering pipeline,    *)
(* the time downsampling, the overview metrics and the CSV export.          *)
(*                                                                          *)
(* Time is counted in minutes since the UNIX epoch, altitude in metres.     *)
(* A table (a pandas DataFrame) is a record [cols, rows]: the sequence of   *)
(* column labels (labels may repeat, as in pandas) and the sequence of      *)
(* rows, each a sequence of cells aligned with cols.                        *)
(***************************************************************************)
EXTENDS Integers, Sequences, FiniteSets, TLC

\* ------------------------------------------------------------------ bounds
MaxRows == 3          \* rows of a store whose lines differ in satellite and time
MaxFilterRows == 2    \* rows of a store whose lines differ in day and altitude
MaxLoadRows == 2      \* rows of a store with defective cells

\* ------------------------------------------------------- program constants
FiveMin == 5
TenMin == 10
ThirtyMin == 30
MinutesPerDay == 1440

SatName == "Satellite Name"
TimeUTC == "Time (UTC)"
Lat == "Latitude"
Lon == "Longitude"
AltM == "Altitude (m)"
TimeBin == "Time Bin"

\* The header GenerateAllOrbitsFromMetadata.py writes and app.py reads.
StoreCols == <<SatName, TimeUTC, Lat, Lon, AltM>>

\* The columns load_orbit_data hands to dropna(subset=...).
RequiredCols == <<Lat, Lon, AltM, TimeUTC, SatName>>

\* ------------------------------------------------------------- CSV text
\* A cell of a delimited text file, described by its lexical form: a decimal
\* numeral of value n, an ISO-8601 UTC timestamp of instant n, some other
\* word s, or nothing between the two commas.
Numeral(n) == [form |-> "numeral", n |-> n, s |-> ""]
Datetime(n) == [form |-> "datetime", n |-> n, s |-> ""]
Word(s) == [form |-> "word", n |-> 0, s |-> s]
Empty == [form |-> "empty", n |-> 0, s |-> ""]

\* --------------------------------------------------------- pandas values
\* A cell of a DataFrame: a float, a Timestamp, a str (which keeps the text
\* it was read from), or the missing values NaN and NaT.
Float(n) == [k |-> "float", form |-> "", n |-> n, s |-> ""]
Ts(n) == [k |-> "ts", form |-> "", n |-> n, s |-> ""]
Str(text) == [k |-> "str", form |-> text.form, n |-> text.n, s |-> text.s]
NaN == [k |-> "nan", form |-> "", n |-> 0, s |-> ""]
NaT == [k |-> "nat", form |-> "", n |-> 0, s |-> ""]

isna(v) == v.k \in {"nan", "nat"}

\* ------------------------------------------------------- table helpers
Range(f) == {f[i] : i \in DOMAIN f}

\* Positions of the columns labelled name, ascending.
ColPositions(cols, name) == {i \in 1..Len(cols) : cols[i] = name}

Min(S) == CHOOSE x \in S : \A y \in S : x <= y
Max(S) == CHOOSE x \in S : \A y \in S : x >= y

\* df[name] for a label that occurs once (pandas returns the first and only
\* column of that label).
ColIndex(t, name) == Min(ColPositions(t.cols, name))

\* The column as a sequence of cells.
Column(t, name) == [i \in 1..Len(t.rows) |-> t.rows[i][ColIndex(t, name)]]

\* df[mask]: the rows at the positions where the boolean mask is TRUE, in
\* their order.
RECURSIVE SelectFrom(_, _, _)
SelectFrom(rows, mask, i) ==
  IF i > Len(rows) THEN <<>>
  ELSE (IF mask[i] THEN <<rows[i]>> ELSE <<>>) \o SelectFrom(rows, mask, i + 1)

BoolIndex(t, mask) == [t EXCEPT !.rows = SelectFrom(t.rows, mask, 1)]

\* ------------------------------------------------------------ pd.read_csv
\* pandas renames a repeated header label to label.1, label.2, ...
MangledCols(cols) ==
  [i \in 1..Len(cols) |->
     LET before == Cardinality({j \in 1..(i - 1) : cols[j] = cols[i]})
     IN IF before = 0 THEN cols[i] ELSE cols[i] \o "." \o ToString(before)]

\* Type inference of one column: a column whose cells are all numerals or
\* empty is numeric (empty reads as NaN); any other column is object, its
\* non-empty cells kept as str.
InferColumn(cells) ==
  IF \A i \in DOMAIN cells : cells[i].form \in {"numeral", "empty"}
  THEN [i \in DOMAIN cells |->
          IF cells[i].form = "numeral" THEN Float(cells[i].n) ELSE NaN]
  ELSE [i \in DOMAIN cells |->
          IF cells[i].form = "empty" THEN NaN ELSE Str(cells[i])]

\* parse_dates on one column: every non-missing cell must parse as a
\* timestamp; otherwise pandas returns the column unaltered, as object.
ParseDatesColumn(vals) ==
  IF \A i \in DOMAIN vals :
       isna(vals[i]) \/ (vals[i].k = "str" /\ vals[i].form = "datetime")
  THEN [i \in DOMAIN vals |-> IF isna(vals[i]) THEN NaT ELSE Ts(vals[i].n)]
  ELSE vals

\* pd.read_csv(path, parse_dates=["Time (UTC)"]): raises when the header has
\* no such column.
ReadCsvRaises(file) == ~(TimeUTC \in Range(MangledCols(file.cols)))

read_csv(file) ==
  LET cols == MangledCols(file.cols)
      n == Len(file.rows)
      raw(c) == [i \in 1..n |-> file.rows[i][c]]
      col(c) == IF cols[c] = TimeUTC
                THEN ParseDatesColumn(InferColumn(raw(c)))
                ELSE InferColumn(raw(c))
  IN [cols |-> cols,
      rows |-> [i \in 1..n |-> [c \in 1..Len(cols) |-> col(c)[i]]]]

\* pd.to_numeric(x, errors="coerce") on one cell.
to_numeric(v) ==
  CASE v.k = "float" -> v
    [] v.k = "str" /\ v.form = "numeral" -> Float(v.n)
    [] OTHER -> NaN

\* df[name] = pd.to_numeric(df[name], errors="coerce")
CoerceColumn(t, name) ==
  LET c == ColIndex(t, name)
  IN [t EXCEPT !.rows = [i \in 1..Len(t.rows) |->
                           [t.rows[i] EXCEPT ![c] = to_numeric(t.rows[i][c])]]]

\* df.dropna(subset=names)
dropna(t, names) ==
  LET complete(row) == \A k \in DOMAIN names : ~isna(row[ColIndex(t, names[k])])
  IN BoolIndex(t, [i \in 1..Len(t.rows) |-> complete(t.rows[i])])

\* ------------------------------------------------------- load_orbit_data
\* What the body of load_orbit_data raises on this file, if anything.
LoadRaises(file) ==
  \/ ~file.exists                                     \* FileNotFoundError
  \/ ReadCsvRaises(file)                              \* ValueError (parse_dates)
  \/ \E name \in Range(RequiredCols) :                \* KeyError
       ~(name \in Range(MangledCols(file.cols)))

load_orbit_data(file) ==
  dropna(CoerceColumn(CoerceColumn(CoerceColumn(read_csv(file), Lat), Lon), AltM),
         RequiredCols)

\* ------------------------------------------------------- sidebar controls
\* Timestamp.date(): the calendar day, counted from the epoch.
DateOf(v) == v.n \div MinutesPerDay

\* Lines 68-69 and 86-87 raise unless the time column holds timestamps and
\* the table has a row: min() of an object column is a str (no .date());
\* min() of no rows is NaT/NaN, and int(np.floor(nan)) raises ValueError.
ControlsRaise(t) ==
  \/ Len(t.rows) = 0
  \/ \E i \in 1..Len(t.rows) : t.rows[i][ColIndex(t, TimeUTC)].k # "ts"

\* min_date, max_date, satellites, alt_min, alt_max (for a table on which
\* ControlsRaise is false; altitudes are whole metres, so floor and ceil
\* are the value itself).
ControlBounds(t) ==
  LET times == Range(Column(t, TimeUTC))
      alts == {v.n : v \in Range(Column(t, AltM))}
  IN [min_date |-> Min({DateOf(v) : v \in times}),
      max_date |-> Max({DateOf(v) : v \in times}),
      satellites |-> Range(Column(t, SatName)),
      alt_min |-> Min(alts),
      alt_max |-> Max(alts)]

NoBounds ==
  [min_date |-> 0, max_date |-> 0, satellites |-> {}, alt_min |-> 0, alt_max |-> 0]

\* ------------------------------------------------------ filtering pipeline
\* Lines 107-112: the conjunction of the four comparisons, row by row.
MutFilterMask(t, c) ==
  [i \in 1..Len(t.rows) |->
     /\ DateOf(t.rows[i][ColIndex(t, TimeUTC)]) >= c.start_date
     /\ DateOf(t.rows[i][ColIndex(t, TimeUTC)]) <= c.end_date
     /\ t.rows[i][ColIndex(t, AltM)].n > c.alt_range[1]
     /\ t.rows[i][ColIndex(t, AltM)].n <= c.alt_range[2]]

FilterMask(t, c) ==
  [i \in 1..Len(t.rows) |->
     /\ DateOf(t.rows[i][ColIndex(t, TimeUTC)]) >= c.start_date
     /\ DateOf(t.rows[i][ColIndex(t, TimeUTC)]) <= c.end_date
     /\ t.rows[i][ColIndex(t, AltM)].n >= c.alt_range[1]
     /\ t.rows[i][ColIndex(t, AltM)].n <= c.alt_range[2]]

\* Lines 114-117: filtered_df["Satellite Name"].isin(selected_sats)
IsinMask(t, sats) ==
  [i \in 1..Len(t.rows) |-> t.rows[i][ColIndex(t, SatName)] \in sats]

\* Lines 107-117.
FilterPipeline(t, c) ==
  LET f == BoolIndex(t, FilterMask(t, c))
  IN IF c.selected_sats # {} THEN BoolIndex(f, IsinMask(f, c.selected_sats)) ELSE f

\* ------------------------------------------------------- time downsampling
\* Lines 121-125: the resampling rule of a resolution, in minutes.
Rule(time_step) ==
  CASE time_step = "5 min" -> FiveMin
    [] time_step = "10 min" -> TenMin
    [] time_step = "30 min" -> ThirtyMin

\* Series.dt.floor(rule)
MutFloorRoundsUp(v, w) == Ts(v.n - (v.n % w) + w)

Floor(v, w) == Ts(v.n - (v.n % w))

\* Line 127: filtered_df["Time Bin"] = filtered_df["Time (UTC)"].dt.floor(rule)
WithTimeBin(t, w) ==
  [cols |-> Append(t.cols, TimeBin),
   rows |-> [i \in 1..Len(t.rows) |->
               Append(t.rows[i], Floor(t.rows[i][ColIndex(t, TimeUTC)], w))]]

\* The order in which groupby sorts the satellite names of the model.
SatRank(v) ==
  CASE v.s = "SAT-A" -> 1
    [] v.s = "SAT-B" -> 2
    [] OTHER -> 3

KeyLeq(a, b) ==
  \/ SatRank(a[1]) < SatRank(b[1])
  \/ SatRank(a[1]) = SatRank(b[1]) /\ a[2].n <= b[2].n

\* The group keys in groupby's (sorted) order.
RECURSIVE SortedKeys(_)
SortedKeys(keys) ==
  IF keys = {} THEN <<>>
  ELSE LET k == CHOOSE x \in keys : \A y \in keys : KeyLeq(x, y)
       IN <<k>> \o SortedKeys(keys \ {k})

\* GroupBy.first() of one column of one group: the first non-missing value
\* in the group's row order (NaN when the group has none).
MutFirstInGroup(t, kc, key, c) ==
  LET members == {i \in 1..Len(t.rows) :
                    /\ <<t.rows[i][kc[1]], t.rows[i][kc[2]]>> = key
                    /\ ~isna(t.rows[i][c])}
  IN IF members = {} THEN NaN ELSE t.rows[Max(members)][c]

FirstInGroup(t, kc, key, c) ==
  LET members == {i \in 1..Len(t.rows) :
                    /\ <<t.rows[i][kc[1]], t.rows[i][kc[2]]>> = key
                    /\ ~isna(t.rows[i][c])}
  IN IF members = {} THEN NaN ELSE t.rows[Min(members)][c]

\* Lines 129-133: groupby([k1, k2]).first().reset_index(): one row per key
\* in sorted key order; the key columns come first, then every other column
\* in its original order.
GroupByFirstReset(t, k1, k2) ==
  LET kc == <<ColIndex(t, k1), ColIndex(t, k2)>>
      others == SelectSeq([i \in 1..Len(t.cols) |-> i],
                          LAMBDA i : i # kc[1] /\ i # kc[2])
      keys == SortedKeys({<<t.rows[i][kc[1]], t.rows[i][kc[2]]>> :
                            i \in 1..Len(t.rows)})
  IN [cols |-> <<k1, k2>> \o [j \in 1..Len(others) |-> t.cols[others[j]]],
      rows |-> [g \in 1..Len(keys) |->
                  keys[g] \o [j \in 1..Len(others) |->
                                FirstInGroup(t, kc, keys[g], others[j])]]]

\* Line 134: rename(columns={old: new}) relabels and leaves the rest alone.
Rename(t, old, new) ==
  [t EXCEPT !.cols = [i \in 1..Len(t.cols) |->
                        IF t.cols[i] = old THEN new ELSE t.cols[i]]]

MutDownsampleAlways(t, time_step) ==
  Rename(GroupByFirstReset(
           WithTimeBin(t, IF time_step = "All" THEN FiveMin ELSE Rule(time_step)),
           SatName, TimeBin),
         TimeBin, TimeUTC)

\* Lines 120-135.
Downsample(t, time_step) ==
  IF time_step # "All"
  THEN Rename(GroupByFirstReset(WithTimeBin(t, Rule(time_step)), SatName, TimeBin),
              TimeBin, TimeUTC)
  ELSE t

\* ------------------------------------------------------- overview metrics
RECURSIVE SumSeq(_)
SumSeq(q) == IF q = <<>> THEN 0 ELSE Head(q) + SumSeq(Tail(q))

\* Series.nunique(): distinct non-missing values.
nunique(cells) == Cardinality({v \in Range(cells) : ~isna(v)})

\* f"{x:,.0f}" of Series.mean(): the mean of no values is NaN, which formats
\* as the word nan; otherwise the mean rounded half-to-even to a whole number.
MutFormatMeanZero(cells) ==
  LET present == SelectSeq(cells, LAMBDA v : ~isna(v))
      total == SumSeq([i \in 1..Len(present) |-> present[i].n])
      cnt == Len(present)
  IN IF cnt = 0 THEN Numeral(0) ELSE Numeral(total \div cnt)

FormatMean(cells) ==
  LET present == SelectSeq(cells, LAMBDA v : ~isna(v))
      total == SumSeq([i \in 1..Len(present) |-> present[i].n])
      cnt == Len(present)
      q == total \div cnt
      r == total % cnt
  IN IF cnt = 0 THEN Word("nan")
     ELSE IF 2 * r < cnt THEN Numeral(q)
     ELSE IF 2 * r > cnt THEN Numeral(q + 1)
     ELSE IF q % 2 = 0 THEN Numeral(q) ELSE Numeral(q + 1)

\* Lines 163-168.
Metrics(t) ==
  [unique_satellites |-> nunique(Column(t, SatName)),
   orbit_samples |-> Len(t.rows),
   mean_altitude |-> FormatMean(Column(t, AltM))]

NoMetrics ==
  [unique_satellites |-> -1, orbit_samples |-> -1, mean_altitude |-> Empty]

\* ------------------------------------------------------------- CSV export
\* How to_csv writes one cell.
FormatCell(v) ==
  CASE v.k = "float" -> Numeral(v.n)
    [] v.k = "ts" -> Datetime(v.n)
    [] v.k = "str" -> [form |-> v.form, n |-> v.n, s |-> v.s]
    [] OTHER -> Empty

\* Line 273: filtered_df.to_csv(index=False): the header, then one line per
\* row.
to_csv(t) ==
  [exists |-> TRUE,
   cols |-> t.cols,
   rows |-> [i \in 1..Len(t.rows) |->
               [c \in 1..Len(t.cols) |-> FormatCell(t.rows[i][c])]]]

\* ------------------------------------------------------------- the stores
\* Samples for the downsampling: SAT-A at 00:00, 00:03, 00:07 and 00:12,
\* SAT-B at 00:00 and 00:03, all at 500000 m.
TimedSamples ==
  ({"SAT-A"} \X {0, 3, 7, 12} \X {500000}) \cup ({"SAT-B"} \X {0, 3} \X {500000})

\* Samples for the filter: two satellites, 00:00 of day 0 and 00:12 of day 1,
\* one metre below, at, and one metre above 500000 m.
RangedSamples == {"SAT-A", "SAT-B"} \X {0, 1452} \X {499999, 500000, 500001}

\* One line of the store as GenerateAllOrbitsFromMetadata.py writes it; the
\* latitude and longitude tell the lines of a store apart.
StoreRow(i, sat, t, alt) ==
  <<Word(sat), Datetime(t), Numeral(10 * i), Numeral(100 + i), Numeral(alt)>>

NoFile == [exists |-> FALSE, cols |-> <<>>, rows |-> <<>>]

WellFormedStores(maxrows, samples) ==
  {[exists |-> TRUE, cols |-> StoreCols,
    rows |-> [i \in DOMAIN f |-> StoreRow(i, f[i][1], f[i][2], f[i][3])]] :
     f \in UNION {[1..m -> samples] : m \in 0..maxrows}}

\* A line with at most one defective cell: a cell left empty, or a word where
\* a number or a timestamp belongs.
Defects ==
  {"none", "sat_empty", "time_empty", "time_word", "lat_empty", "lat_word",
   "lon_empty", "lon_word", "alt_empty", "alt_word"}

DefectRow(i, d, t) ==
  <<IF d = "sat_empty" THEN Empty ELSE Word("SAT-A"),
    CASE d = "time_empty" -> Empty
      [] d = "time_word" -> Word("not-a-time")
      [] OTHER -> Datetime(t),
    CASE d = "lat_empty" -> Empty
      [] d = "lat_word" -> Word("north")
      [] OTHER -> Numeral(10 * i),
    CASE d = "lon_empty" -> Empty
      [] d = "lon_word" -> Word("east")
      [] OTHER -> Numeral(100 + i),
    CASE d = "alt_empty" -> Empty
      [] d = "alt_word" -> Word("high")
      [] OTHER -> Numeral(500000)>>

DefectStores(maxrows) ==
  {[exists |-> TRUE, cols |-> StoreCols,
    rows |-> [i \in DOMAIN f |-> DefectRow(i, f[i][1], f[i][2])]] :
     f \in UNION {[1..m -> Defects \X {0, 7}] : m \in 0..maxrows}}

\* No file at the path, or a file whose header lacks a required column.
UnreadableStores ==
  {NoFile,
   [exists |-> TRUE, cols |-> <<SatName, Lat, Lon, AltM>>, rows |-> <<>>],
   [exists |-> TRUE, cols |-> <<SatName, TimeUTC, Lon, AltM>>, rows |-> <<>>]}

\* ---------------------------------------------------------------- the state
VARIABLES
  store,        \* data/all_satellite_orbits.csv
  cache,        \* what st.cache_data holds for load_orbit_data
  loads,        \* how many times the body of load_orbit_data has run
  df,           \* the validated base table
  pc,           \* where the script run stands
  errors,       \* the messages st.error has shown
  controls,     \* min_date, max_date, satellites, alt_min, alt_max
  criteria,     \* the values read from the sidebar widgets
  filtered_df,  \* the script's filtered_df
  metrics,      \* the Overview tab's metrics
  selected_sat, \* the satellite chosen in the Satellite Explorer tab
  sat_df,       \* the Satellite Explorer tab's sat_df
  export        \* the text handed to st.download_button

vars ==
  <<store, cache, loads, df, pc, errors, controls, criteria, filtered_df, metrics,
    selected_sat, sat_df, export>>

NoTable == [cols |-> <<>>, rows |-> <<>>]

NoCriteria ==
  [start_date |-> 0, end_date |-> 0, selected_sats |-> {},
   alt_range |-> <<0, 0>>, time_step |-> ""]

\* The values the widgets can hand back.
DateChoices == {0, 1}
AltChoices == {500000, 600000}
TimeSteps == {"All", "5 min", "10 min", "30 min"}

\* No satellite chosen yet.
NoSat == NaN

FreshRun ==
  /\ df = NoTable
  /\ pc = "start"
  /\ errors = <<>>
  /\ controls = NoBounds
  /\ criteria = NoCriteria
  /\ filtered_df = NoTable
  /\ metrics = NoMetrics
  /\ selected_sat = NoSat
  /\ sat_df = NoTable
  /\ export = NoFile

Init ==
  /\ store \in WellFormedStores(MaxRows, TimedSamples)
                  \cup UnreadableStores \cup DefectStores(1)
  /\ cache = NoTable
  /\ loads = 0
  /\ FreshRun

InitFilter ==
  /\ store \in WellFormedStores(MaxFilterRows, RangedSamples)
                  \cup UnreadableStores \cup DefectStores(1)
  /\ cache = NoTable
  /\ loads = 0
  /\ FreshRun

InitLoad ==
  /\ store \in DefectStores(MaxLoadRows) \cup UnreadableStores
  /\ cache = NoTable
  /\ loads = 0
  /\ FreshRun

\* ------------------------------------------------------------- aliasing
\* Lines 107-117: df[mask] and filtered_df[...isin(...)] index with a boolean
\* mask, which builds a new table even when every row is kept: filtered_df
\* never shares its data with df.
MutSharesBaseWhenAllKept == filtered_df = df

FilteredSharesBase == FALSE

\* ------------------------------------------------- single-satellite view
\* DataFrame.sort_values(name): the rows in ascending order of the column;
\* rows of equal value keep their order.
sort_values(t, name) ==
  [t EXCEPT !.rows = SortSeq(t.rows, LAMBDA a, b : a[ColIndex(t, name)].n
                                                     < b[ColIndex(t, name)].n)]

\* Lines 221-224: df[df["Satellite Name"] == selected_sat].sort_values(...)
MutSatelliteViewOfFiltered(t, sat) ==
  sort_values(BoolIndex(filtered_df,
                        [i \in 1..Len(filtered_df.rows) |->
                           filtered_df.rows[i][ColIndex(filtered_df, SatName)] = sat]),
              TimeUTC)

SatelliteView(t, sat) ==
  sort_values(BoolIndex(t, [i \in 1..Len(t.rows) |->
                              t.rows[i][ColIndex(t, SatName)] = sat]),
              TimeUTC)

\* --------------------------------------------------------------- the script
\* Lines 18-60: the cached load inside try/except; on any exception
\* st.error(str(e)) and st.stop().
MutLoadSwallowsError ==
  /\ pc = "start"
  /\ IF cache # NoTable
     THEN /\ df' = cache
          /\ pc' = "loaded"
          /\ UNCHANGED <<cache, loads, errors>>
     ELSE IF LoadRaises(store)
     THEN /\ errors' = Append(errors, "load failed")
          /\ loads' = loads + 1
          /\ df' = [cols |-> StoreCols, rows |-> <<>>]
          /\ pc' = "loaded"
          /\ UNCHANGED cache
     ELSE /\ df' = load_orbit_data(store)
          /\ cache' = df'
          /\ loads' = loads + 1
          /\ pc' = "loaded"
          /\ UNCHANGED errors
  /\ UNCHANGED <<store, controls, criteria, filtered_df, metrics,
                  selected_sat, sat_df, export>>

Load ==
  /\ pc = "start"
  /\ IF cache # NoTable
     THEN /\ df' = cache
          /\ pc' = "loaded"
          /\ UNCHANGED <<cache, loads, errors>>
     ELSE IF LoadRaises(store)
     THEN /\ errors' = Append(errors, "load failed")
          /\ loads' = loads + 1
          /\ pc' = "stopped"
          /\ UNCHANGED <<cache, df>>
     ELSE /\ df' = load_orbit_data(store)
          /\ cache' = df'
          /\ loads' = loads + 1
          /\ pc' = "loaded"
          /\ UNCHANGED errors
  /\ UNCHANGED <<store, controls, criteria, filtered_df, metrics,
                  selected_sat, sat_df, export>>

\* Lines 65-117: the bounds of the controls, the widgets' values, and the
\* filtering pipeline on them. An exception here is not caught: the run
\* ends.
SidebarAndFilter ==
  /\ pc = "loaded"
  /\ IF ControlsRaise(df)
     THEN /\ pc' = "crashed"
          /\ UNCHANGED <<controls, criteria, filtered_df>>
     ELSE /\ controls' = ControlBounds(df)
          /\ \E sd \in DateChoices, ed \in DateChoices,
                sel \in SUBSET ControlBounds(df).satellites,
                lo \in AltChoices, hi \in AltChoices, ts \in TimeSteps :
               /\ sd <= ed
               /\ lo <= hi
               /\ criteria' = [start_date |-> sd, end_date |-> ed,
                               selected_sats |-> sel,
                               alt_range |-> <<lo, hi>>, time_step |-> ts]
          /\ filtered_df' = FilterPipeline(df, criteria')
          /\ pc' = "filtered"
  /\ UNCHANGED <<store, cache, loads, df, errors, metrics, selected_sat, sat_df,
                  export>>

\* Lines 119-135. Line 127 assigns the Time Bin column into the object that
\* filtered_df names; the base table gets the column too exactly when the
\* two share their data. The cache is out of reach: st.cache_data hands
\* every run its own copy of the cached table.
TimeDownsampling ==
  /\ pc = "filtered"
  /\ filtered_df' = Downsample(filtered_df, criteria.time_step)
  /\ df' = IF criteria.time_step # "All" /\ FilteredSharesBase
            THEN WithTimeBin(df, Rule(criteria.time_step))
            ELSE df
  /\ pc' = "downsampled"
  /\ UNCHANGED <<store, cache, loads, errors, controls, criteria, metrics,
                  selected_sat, sat_df, export>>

\* Lines 160-172, 213-224 and 255-276: the metrics, the satellite chosen
\* in the Satellite Explorer with its view, and the download button.
Tabs ==
  /\ pc = "downsampled"
  /\ metrics' = Metrics(filtered_df)
  /\ \E sat \in controls.satellites :
       /\ selected_sat' = sat
       /\ sat_df' = SatelliteView(df, sat)
  /\ export' = to_csv(filtered_df)
  /\ pc' = "rendered"
  /\ UNCHANGED <<store, cache, loads, df, errors, controls, criteria, filtered_df>>

\* The user touches a widget: Streamlit runs the script again from the top,
\* with only the cache surviving.
Rerun ==
  /\ pc = "rendered"
  /\ df' = NoTable
  /\ pc' = "start"
  /\ errors' = <<>>
  /\ controls' = NoBounds
  /\ criteria' = NoCriteria
  /\ filtered_df' = NoTable
  /\ metrics' = NoMetrics
  /\ selected_sat' = NoSat
  /\ sat_df' = NoTable
  /\ export' = NoFile
  /\ UNCHANGED <<store, cache, loads>>

Next == Load \/ SidebarAndFilter \/ TimeDownsampling \/ Tabs \/ Rerun

Spec == Init /\ [][Next]_vars

SpecFilter == InitFilter /\ [][Next]_vars

NextLoad == Load

SpecLoad == InitLoad /\ [][NextLoad]_vars

\* =================================================================== claims
\* The cell of a row under a label that occurs once in the table.
Field(t, row, name) == row[ColIndex(t, name)]

\* The table the filtering pipeline hands to the time downsampling.
Filtered == FilterPipeline(df, criteria)

\* floor(timestamp, W), stated as the multiple of W whose span holds t.
BucketOf(t, w) == CHOOSE b \in (t - w + 1)..t : b % w = 0

\* The i-th smallest member of a set of positions.
Nth(S, i) == CHOOSE x \in S : Cardinality({y \in S : y <= x}) = i

\* ----------------------------------------------------------------------- C1
\* A line of the store with all five fields present and well-formed.
WellFormedLine(line) ==
  /\ line[1].form # "empty"
  /\ line[2].form = "datetime"
  /\ line[3].form = "numeral"
  /\ line[4].form = "numeral"
  /\ line[5].form = "numeral"

ValueOfLine(line) ==
  <<Str(line[1]), Ts(line[2].n), Float(line[3].n), Float(line[4].n), Float(line[5].n)>>

\* C1: after a successful load the validated table holds exactly the store's
\* well-formed lines, in their order and with their five values; a line that
\* is missing or malformed in any of the five fields is absent.
C1_ValidationDropsInvalidRows ==
  pc = "loaded" =>
    LET good == {i \in 1..Len(store.rows) : WellFormedLine(store.rows[i])}
    IN /\ df.cols = StoreCols
       /\ Len(df.rows) = Cardinality(good)
       /\ \A j \in 1..Len(df.rows) : df.rows[j] = ValueOfLine(store.rows[Nth(good, j)])

\* ----------------------------------------------------------------------- C2
\* The claim's predicate on one row of the validated table.
Selected(row, c) ==
  /\ c.start_date <= Field(df, row, TimeUTC).n \div MinutesPerDay
  /\ Field(df, row, TimeUTC).n \div MinutesPerDay <= c.end_date
  /\ c.alt_range[1] <= Field(df, row, AltM).n
  /\ Field(df, row, AltM).n <= c.alt_range[2]
  /\ (Field(df, row, SatName) \in c.selected_sats \/ c.selected_sats = {})

\* C2: the filtered table holds exactly the rows of the validated table
\* inside the date range, inside the altitude range (both ends included) and
\* of a selected satellite (any satellite when none is selected), in the
\* validated table's order.
C2_FilterExactInclusiveOrdered ==
  pc = "filtered" =>
    LET kept == {i \in 1..Len(df.rows) : Selected(df.rows[i], criteria)}
    IN /\ filtered_df.cols = df.cols
       /\ Len(filtered_df.rows) = Cardinality(kept)
       /\ \A j \in 1..Len(filtered_df.rows) : filtered_df.rows[j] = df.rows[Nth(kept, j)]
       /\ \A i \in 1..Len(df.rows) :
            Field(df, df.rows[i], AltM).n \in
                {criteria.alt_range[1] - 1, criteria.alt_range[2] + 1}
              => ~(df.rows[i] \in Range(filtered_df.rows))

\* A row at the lower end of the altitude range is kept while a row one metre
\* below it is dropped.
C2_Witness ==
  /\ pc = "filtered"
  /\ Len(df.rows) = 2
  /\ Len(filtered_df.rows) = 1
  /\ Field(df, filtered_df.rows[1], AltM).n = criteria.alt_range[1]
  /\ \E i \in 1..2 : Field(df, df.rows[i], AltM).n = criteria.alt_range[1] - 1

\* ----------------------------------------------------------------------- C3
Bucketed == pc = "downsampled" /\ criteria.time_step # "All"

\* The (satellite, bucket) pairs of a filtered input for the width w.
InputPairs(pre, w) ==
  {<<Field(pre, pre.rows[i], SatName), BucketOf(Field(pre, pre.rows[i], TimeUTC).n, w)>> :
     i \in 1..Len(pre.rows)}

\* The (satellite, bucket) pair of an output row.
OutputPair(row) ==
  <<Field(filtered_df, row, SatName), Field(filtered_df, row, TimeUTC).n>>

\* C3: with a bucket width the output holds one row for each (satellite,
\* bucket) pair of the filtered input, no pair twice and no pair the input
\* lacks.
C3_OneRowPerSatelliteBucket ==
  Bucketed =>
    LET pairs == InputPairs(Filtered, Rule(criteria.time_step))
    IN /\ {OutputPair(filtered_df.rows[g]) : g \in 1..Len(filtered_df.rows)} = pairs
       /\ Len(filtered_df.rows) = Cardinality(pairs)

\* Three filtered rows fall into two groups.
C3_Witness ==
  /\ Bucketed
  /\ Len(Filtered.rows) = 3
  /\ Len(filtered_df.rows) = 2

\* ----------------------------------------------------------------------- C4
\* The positions of the rows of a filtered input that belong to one
\* (satellite, bucket) group of width w.
GroupOf(pre, w, pair) ==
  {i \in 1..Len(pre.rows) :
     /\ Field(pre, pre.rows[i], SatName) = pair[1]
     /\ pair[2] <= Field(pre, pre.rows[i], TimeUTC).n
     /\ Field(pre, pre.rows[i], TimeUTC).n < pair[2] + w}

\* The example of the specification: SAT-A at 00:00, 00:03 and 00:07.
ExampleRows(pre) ==
  /\ Len(pre.rows) = 3
  /\ \A i \in 1..3 : Field(pre, pre.rows[i], SatName) = Str(Word("SAT-A"))
  /\ Field(pre, pre.rows[1], TimeUTC).n = 0
  /\ Field(pre, pre.rows[2], TimeUTC).n = 3
  /\ Field(pre, pre.rows[3], TimeUTC).n = 7

\* C4: the latitude, longitude and altitude of an output row are those of the
\* first row, in the filtered table's order, of its (satellite, bucket)
\* group; the example of SAT-A at 00:00, 00:03, 00:07 with 5 minutes gives
\* the 00:00 sample for bucket 00:00 and the 00:07 sample for bucket 00:05.
C4_RepresentativeIsFirstInOrder ==
  Bucketed =>
    LET pre == Filtered
        w == Rule(criteria.time_step)
    IN /\ \A g \in 1..Len(filtered_df.rows) :
            LET row == filtered_df.rows[g]
                src == pre.rows[Min(GroupOf(pre, w, OutputPair(row)))]
            IN /\ Field(filtered_df, row, Lat) = Field(pre, src, Lat)
               /\ Field(filtered_df, row, Lon) = Field(pre, src, Lon)
               /\ Field(filtered_df, row, AltM) = Field(pre, src, AltM)
       /\ (ExampleRows(pre) /\ criteria.time_step = "5 min") =>
            /\ Len(filtered_df.rows) = 2
            /\ OutputPair(filtered_df.rows[1])[2] = 0
            /\ Field(filtered_df, filtered_df.rows[1], Lat) = Field(pre, pre.rows[1], Lat)
            /\ OutputPair(filtered_df.rows[2])[2] = 5
            /\ Field(filtered_df, filtered_df.rows[2], Lat) = Field(pre, pre.rows[3], Lat)

\* A group whose first row in table order has a later timestamp than another
\* row of the group, and the output row carries the first row's latitude.
C4_Witness ==
  /\ Bucketed
  /\ LET pre == Filtered
         w == Rule(criteria.time_step)
     IN \E g \in 1..Len(filtered_df.rows) :
          LET grp == GroupOf(pre, w, OutputPair(filtered_df.rows[g]))
          IN /\ \E j \in grp :
                  /\ j > Min(grp)
                  /\ Field(pre, pre.rows[j], TimeUTC).n
                       < Field(pre, pre.rows[Min(grp)], TimeUTC).n
             /\ Field(filtered_df, filtered_df.rows[g], Lat)
                  = Field(pre, pre.rows[Min(grp)], Lat)

\* ----------------------------------------------------------------------- C5
\* C5: with a bucket width every output row carries exactly one timestamp
\* field, whose value is the bucket boundary; the source row's own timestamp
\* does not remain in the row.
C5_SingleTimestampIsBucket ==
  Bucketed =>
    \A g \in 1..Len(filtered_df.rows) :
      LET row == filtered_df.rows[g]
          stamps == {c \in 1..Len(row) : row[c].k = "ts"}
      IN /\ Cardinality(ColPositions(filtered_df.cols, TimeUTC)) = 1
         /\ Cardinality(stamps) = 1
         /\ \A c \in stamps : row[c].n % Rule(criteria.time_step) = 0

\* ----------------------------------------------------------------------- C6
\* C6: with the resolution "All" the table handed to the metrics and the
\* export is the filtered table, row for row and in order.
C6_NoBucketingIsIdentity ==
  (pc \in {"downsampled", "rendered"} /\ criteria.time_step = "All") =>
    /\ filtered_df = Filtered
    /\ pc = "rendered" =>
         /\ metrics = Metrics(Filtered)
         /\ export = to_csv(Filtered)

\* Two filtered rows of one satellite in one 5-minute bucket both reach the
\* view.
C6_Witness ==
  /\ pc = "rendered"
  /\ criteria.time_step = "All"
  /\ Len(filtered_df.rows) = 2
  /\ Field(filtered_df, filtered_df.rows[1], SatName)
       = Field(filtered_df, filtered_df.rows[2], SatName)
  /\ Field(filtered_df, filtered_df.rows[1], TimeUTC).n = 3
  /\ Field(filtered_df, filtered_df.rows[2], TimeUTC).n = 0

\* ----------------------------------------------------------------------- C7
\* The cells of a table under one label, column by column.
Under(t, name) ==
  [i \in 1..Len(t.rows) |-> {<<c, t.rows[i][c]>> : c \in ColPositions(t.cols, name)}]

\* C7: the export, loaded through load_orbit_data, gives the samples of the
\* view: the load does not fail, no row is dropped and the values under each
\* of the five labels are those of the view.
C7_ExportRoundTrip ==
  pc = "rendered" =>
    /\ ~LoadRaises(export)
    /\ Len(load_orbit_data(export).rows) = Len(filtered_df.rows)
    /\ \A k \in 1..Len(StoreCols) :
         Under(load_orbit_data(export), StoreCols[k]) = Under(filtered_df, StoreCols[k])

\* ----------------------------------------------------------------------- C8
\* C8: the export's header holds the five columns of the store, each once
\* and nothing else, and the export has one line per row of the view.
C8_ExportFiveColumns ==
  pc = "rendered" =>
    /\ Len(export.cols) = Len(StoreCols)
    /\ \A k \in 1..Len(StoreCols) :
         Cardinality(ColPositions(export.cols, StoreCols[k])) = 1
    /\ Len(export.rows) = Len(filtered_df.rows)

\* ----------------------------------------------------------------------- C9
\* The criteria select no row of a validated table that has rows.
EmptySelection ==
  /\ pc \in {"filtered", "downsampled", "rendered"}
  /\ Len(df.rows) > 0
  /\ Len(Filtered.rows) = 0

C10_LoadFailureIsFatal ==
  LoadRaises(store) =>
    /\ pc \in {"start", "stopped"}
    /\ pc = "start" => errors = <<>>
    /\ pc = "stopped" => (Len(errors) = 1 /\ ~ENABLED Next)
    /\ df = NoTable
    /\ controls = NoBounds
    /\ criteria = NoCriteria
    /\ filtered_df = NoTable
    /\ metrics = NoMetrics
    /\ export = NoFile

\* The file is absent and the run has stopped on the reported error.
C10_Witness ==
  /\ ~store.exists
  /\ pc = "stopped"
  /\ Len(errors) = 1

\* C11: the Satellite Explorer's view holds exactly the rows of the validated
\* base table of the chosen satellite, in ascending order of timestamp,
\* whatever the filter criteria of the run are and whatever they left in
\* filtered_df.
C11_SingleSatelliteViewIgnoresFilters ==
  pc = "rendered" =>
    LET own == {i \in 1..Len(df.rows) : Field(df, df.rows[i], SatName) = selected_sat}
        n == Len(sat_df.rows)
    IN /\ sat_df.cols = df.cols
       /\ n = Cardinality(own)
       /\ \A i \in own : \E k \in 1..n : sat_df.rows[k] = df.rows[i]
       /\ \A k \in 1..n : \E i \in own : sat_df.rows[k] = df.rows[i]
       /\ \A k \in 1..n, m \in 1..n :
            k < m => Field(df, sat_df.rows[k], TimeUTC).n
                       <= Field(df, sat_df.rows[m], TimeUTC).n

\* The criteria kept no row, the base table holds the chosen satellite's
\* rows out of time order, and the view shows them all.
C11_Witness ==
  /\ pc = "rendered"
  /\ Len(filtered_df.rows) = 0
  /\ Len(sat_df.rows) >= 2
  /\ \E i \in 1..Len(df.rows), j \in 1..Len(df.rows) :
       /\ i < j
       /\ Field(df, df.rows[i], SatName) = selected_sat
       /\ Field(df, df.rows[j], SatName) = selected_sat
       /\ Field(df, df.rows[i], TimeUTC).n > Field(df, df.rows[j], TimeUTC).n

\* C12: the body of load_orbit_data runs once in the session. The table a
\* run starts from (the cached table, at the start of every run and right
\* after the load) is the table that load makes of the store, and from the
\* load on, through filter, bucketing, metrics and export, the run's base
\* table equals it: the same five columns, the same rows and values.
C12_BaseTableImmutable ==
  /\ loads <= 1
  /\ cache # NoTable => loads = 1
  /\ (pc \in {"start", "loaded"} /\ cache # NoTable) =>
       cache = load_orbit_data(store)
  /\ pc \in {"loaded", "filtered", "downsampled", "rendered", "crashed"} =>
       /\ loads = 1
       /\ df = cache
       /\ df.cols = StoreCols

\* Every row passed the filter and was bucketed with the added Time Bin
\* column, and the base table still has its five columns.
C12_Witness ==
  /\ pc = "downsampled"
  /\ criteria.time_step # "All"
  /\ Len(df.rows) >= 2
  /\ FilterPipeline(df, criteria) = df
  /\ Len(filtered_df.cols) = Len(StoreCols) + 1
  /\ df = cache
  /\ df.cols = StoreCols

\* C13: when the load succeeds with a table of no rows, the stages after it
\* (control bounds, filter, downsampling, metrics) run without raising: the
\* run of a zero-row base table never ends in an uncaught exception.
C13_ZeroRowTableRunsThrough ==
  (cache # NoTable /\ df = cache /\ Len(df.rows) = 0) => pc # "crashed"

====
